---- MODULE Spec2Model ----
(***************************************************************************)
(* LightController.ino: a 24 hour light scheduler.  The sketch keeps one   *)
(* table of light periods per channel (lightMatrix) and, on every pass of  *)
(* loop(), reads the clock and recomputes the intensity of every channel   *)
(* (UpdateLights), fading linearly in the gap between two periods.         *)
(*                                                                         *)
(* Target: Arduino Uno (AVR).  int is 16 bits, long is 32 bits, float is   *)
(* IEEE-754 binary32.                                                      *)
(***************************************************************************)
EXTENDS Integers, Sequences, FiniteSets, TLC

VARIABLES lightMatrix,  \* int lightMatrix[CHANNELS][MAXPERIODS][5]
          lightValue,   \* int lightValue[CHANNELS]
          Hours,        \* int Hours
          Minutes,      \* int Minutes
          Seconds,      \* int Seconds
          pinOut,       \* last value handed to analogWrite, per channel
          pc,           \* "setup" before setup() has run, "loop" after
          fixMode,      \* what the build does with a float too large for int
          updated,      \* UpdateLights has been called at least once
          rowsRead,     \* per channel: row indices read by the last scan
          wrote,        \* per channel: the last scan assigned lightValue
          gapLong,      \* per channel: pNextStart - pEnd of the last scan, or NoGap
          tDurInt       \* per channel: int tDur of the last scan, or NoGap

vars == <<lightMatrix, lightValue, Hours, Minutes, Seconds, pinOut, pc,
          fixMode, updated, rowsRead, wrote, gapLong, tDurInt>>

----------------------------------------------------------------------------
(* Named values of the sketch *)

CHANNELS == 2
MAXPERIODS == 5
START_H == 0
START_M == 1
END_H == 2
END_M == 3
INTENSITY == 4

Channel == 0 .. (CHANNELS - 1)
Period == 0 .. (MAXPERIODS - 1)

(* Bounds of the model *)

\* generated schedules use at most this many meaningful rows
MaxUsedRows == 2

NoGap == 0 - 1

----------------------------------------------------------------------------
(* Machine arithmetic *)

\* two's complement reduction of a value to a 16 bit int
Wrap16(v) == ((v + 32768) % 65536) - 32768

INT_MIN == 0 - 32768
INT_MAX == 32767

Abs(v) == IF v < 0 THEN 0 - v ELSE v

\* C integer division: the quotient truncated toward zero
TruncDiv(a, b) ==
    IF (a < 0) = (b < 0) THEN Abs(a) \div Abs(b) ELSE 0 - (Abs(a) \div Abs(b))

\* the number of binary digits of n, 0 <= n < 2^31
BitLen(n) == IF n = 0 THEN 0 ELSE 1 + CHOOSE k \in 0 .. 30 : 2^k <= n /\ n < 2 * 2^k

\* (float)a / (float)b for integers 0 < a, b < 2^16: the binary32 quotient,
\* rounded to nearest even, as <<m, e>> with 2^23 <= m < 2^24 and value m * 2^e
FloatDiv(a, b) ==
    LET la == BitLen(a)
        lb == BitLen(b)
        A0 == a * 2^(16 - la)
        B  == b * 2^(16 - lb)
        lt == A0 < B
        A  == IF lt THEN 2 * A0 ELSE A0
        e0 == IF lt THEN la - lb - 1 ELSE la - lb
        n1 == A * 4096
        q1 == n1 \div B
        r1 == n1 % B
        n2 == r1 * 2048
        q2 == n2 \div B
        r2 == n2 % B
        m0 == q1 * 2048 + q2
        rb == (2 * r2) \div B
        st == (2 * r2) % B
        m1 == IF rb = 1 /\ (st # 0 \/ m0 % 2 = 1) THEN m0 + 1 ELSE m0
    IN  IF m1 = 16777216 THEN <<8388608, e0 - 22>> ELSE <<m1, e0 - 23>>

\* (float)x * f for an integer 0 < x < 2^17 and f = m * 2^e: the binary32
\* product, rounded to nearest even, then truncated to an integer
FloatMulTrunc(x, m, e) ==
    LET mh == m \div 4096
        ml == m % 4096
        lo == x * ml
        d0 == lo % 4096
        upper == x * mh + (lo \div 4096)
        L == IF upper > 0 THEN BitLen(upper) + 12 ELSE BitLen(d0)
        s == IF L > 24 THEN L - 24 ELSE 0
        kept0 == IF s = 0 THEN upper * 4096 + d0
                 ELSE IF s <= 12 THEN upper * 2^(12 - s) + (d0 \div 2^s)
                 ELSE upper \div 2^(s - 12)
        rem == IF s = 0 THEN 0
               ELSE IF s <= 12 THEN d0 % 2^s
               ELSE (upper % 2^(s - 12)) * 4096 + d0
        half == IF s = 0 THEN 1 ELSE 2^(s - 1)
        kept == IF s > 0 /\ (rem > half \/ (rem = half /\ kept0 % 2 = 1))
                THEN kept0 + 1 ELSE kept0
        sh == s + e
    IN  IF sh >= 0 THEN kept * 2^sh
        ELSE IF 0 - sh > 24 THEN 0
        ELSE kept \div 2^(0 - sh)

\* the value of x * ((float)num / den) truncated toward zero, for x > 0;
\* a zero divisor gives an infinity (or a NaN), no integer at all
Unrepresentable == 1073741824

FloatScale(x, num, den) ==
    IF den = 0 THEN Unrepresentable
    ELSE IF num = 0 THEN 0
    ELSE LET f == FloatDiv(Abs(num), Abs(den))
             v == FloatMulTrunc(x, f[1], f[2])
         IN  IF (num < 0) = (den < 0) THEN v ELSE 0 - v

\* (int) of a float whose truncated value is v.  Out of the range of int the
\* conversion is undefined; a build either keeps the low 16 bits of the 32 bit
\* conversion or saturates
FixModes == {"wrap", "saturate"}

FloatToInt(v, mode) ==
    IF v >= INT_MIN /\ v <= INT_MAX THEN v
    ELSE IF mode = "wrap"
         THEN (IF v = Unrepresentable \/ v = 0 - Unrepresentable
               THEN 0 ELSE Wrap16(v))
         ELSE (IF v > 0 THEN INT_MAX ELSE INT_MIN)

----------------------------------------------------------------------------
(* GetSeconds: HH:mm:ss -> seconds since midnight *)

\* the conversion without its (long) cast: all of it in int
GetSeconds_NoCast(hours, minutes, seconds) ==
    Wrap16(Wrap16(hours * 60 * 60) + Wrap16(minutes * 60) + seconds)

GetSeconds(hours, minutes, seconds) ==
    (hours * 60 * 60) + Wrap16(minutes * 60) + seconds

----------------------------------------------------------------------------
(* Light period tables *)

\* one row: {HourStart, MinuteStart, HourEnd, MinuteEnd, Intensity}
Row(sh, sm, eh, em, in) ==
    [f \in 0 .. 4 |-> <<sh, sm, eh, em, in>>[f + 1]]

\* one channel's table from a sequence of MAXPERIODS rows
Table(rows) == [p \in Period |-> rows[p + 1]]

\* the initializer of lightMatrix in the sketch
ShippedMatrix ==
    [c \in Channel |->
        IF c = 0
        THEN Table(<<Row(0, 0, 8, 0, 0),
                     Row(8, 30, 11, 0, 255),
                     Row(11, 10, 13, 0, 0),
                     Row(13, 10, 20, 0, 255),
                     Row(20, 30, 24, 0, 0)>>)
        ELSE Table(<<Row(0, 0, 7, 45, 0),
                     Row(8, 0, 11, 0, 255),
                     Row(11, 10, 13, 0, 0),
                     Row(13, 10, 20, 30, 255),
                     Row(20, 45, 24, 0, 0)>>)]

\* the filler row of the sketch's "always on" example
ZeroRow == Row(0, 0, 0, 0, 0)

\* clock marks (hour, minute) that generated tables are built from.  The gaps
\* between them cover a short fade (08:00-08:30, 1800 s), gaps longer than
\* 32767 s (08:00-18:13, 08:30-18:13) and one longer than 65535 s
\* (00:00-18:13, 65580 s)
Marks == <<(<<0, 0>>), (<<8, 0>>), (<<8, 30>>), (<<18, 13>>)>>
MarkIdx == 1 .. Len(Marks)
Midnight == <<0, 0>>
EndOfDay == <<24, 0>>

\* intensities that generated tables are built from
Levels == {0, 100, 255}

\* rows that may fill a table after its last meaningful row
Fillers == {ZeroRow, Row(0, 0, 24, 0, 77)}

\* boundaries of a table with k meaningful rows: b[2i-1] is the end of row i
\* and b[2i] the start of row i+1, as indices into Marks
Boundaries(k) ==
    {b \in [1 .. 2 * (k - 1) -> MarkIdx] :
        /\ \A i \in 1 .. (k - 1) : b[2 * i - 1] < b[2 * i]
        /\ \A i \in 1 .. (k - 2) : b[2 * i] <= b[2 * i + 1]}

\* the table with k meaningful rows, boundaries b, intensities lv, the last
\* meaningful row ending at clock mark last, then filler rows
BuildTable(k, b, lv, last, filler) ==
    [p \in Period |->
        IF p >= k THEN filler
        ELSE LET st == IF p = 0 THEN Midnight ELSE Marks[b[2 * p]]
                 en == IF p = k - 1 THEN last ELSE Marks[b[2 * p + 1]]
             IN  Row(st[1], st[2], en[1], en[2], lv[p + 1])]

\* tables that follow the rules of the sketch's comments: first start 00:00,
\* chronological, no overlaps, some row ending at 24:00
WellFormedTables ==
    UNION {{BuildTable(k, b, lv, EndOfDay, fl) :
              b \in Boundaries(k), lv \in [1 .. k -> Levels], fl \in Fillers} :
           k \in 1 .. MaxUsedRows}

\* tables in which no row ends at 24:00: the last meaningful row ends at a
\* clock mark, and zero rows follow
LastEnds(k, b) == {g \in MarkIdx : k = 1 \/ g >= b[2 * (k - 1)]}

MalformedTables ==
    UNION {UNION {{BuildTable(k, b, [i \in 1 .. k |-> 100], Marks[f], ZeroRow) :
                     f \in LastEnds(k, b)} :
                  b \in Boundaries(k)} :
           k \in 1 .. MaxUsedRows}

ChannelTables == WellFormedTables \cup MalformedTables

\* the tables a user may have compiled in: the shipped one with at most one
\* channel's table replaced
Matrices ==
    UNION {{[ShippedMatrix EXCEPT ![c] = t] : t \in ChannelTables} :
           c \in Channel}

\* what a read of row MAXPERIODS, one past a channel's table, may find in
\* memory that is no part of the table
OobRows == {ZeroRow, Row(24, 0, 24, 0, 255)}

\* clock readings (hour, minute, second) the RTC may return
RTCReadings ==
    {<<0, 0, 0>>, <<4, 0, 0>>, <<7, 59, 59>>, <<8, 0, 0>>, <<8, 0, 1>>,
     <<8, 15, 0>>, <<8, 30, 0>>, <<11, 0, 0>>, <<11, 5, 0>>, <<13, 5, 0>>,
     <<18, 12, 59>>, <<18, 13, 0>>, <<23, 59, 59>>}

----------------------------------------------------------------------------
(* UpdateLights *)

\* the comparison with the end of the period excluded
PeriodActive_Strict(pEnd, seconds) == pEnd > seconds

\* "Period is currently happening"
PeriodActive(pEnd, seconds) == pEnd >= seconds

\* "Currently in between periods"
BetweenPeriods(pNextStart, seconds) == pNextStart > seconds

\* int tDur = pNextStart - pEnd: a long stored in an int
TransitionDuration(pNextStart, pEnd) == Wrap16(pNextStart - pEnd)

\* the value assigned while between two periods
Fade(preVal, postVal, elapsed, tDur, mode) ==
    LET intensityDiff == Wrap16(postVal - preVal)
    IN  IF intensityDiff > 0
        THEN FloatToInt(FloatScale(elapsed, intensityDiff, tDur), mode)
        ELSE Wrap16(preVal -
                    FloatToInt(FloatScale(elapsed, 0 - intensityDiff, tDur), mode))

\* lightMatrix[channel][period]: a row of the channel's table or, for period
\* MAXPERIODS, the row found behind it
RowAt(table, oob, period) == IF period < MAXPERIODS THEN table[period] ELSE oob

\* the period loop of one channel from row `period` on.  prev is
\* lightValue[channel] before the call
RECURSIVE ScanPeriods(_, _, _, _, _, _)
ScanPeriods(table, oob, period, seconds, prev, mode) ==
    IF period >= MAXPERIODS
    THEN [value |-> prev, wrote |-> FALSE, reads |-> {},
          gap |-> NoGap, tDur |-> NoGap]
    ELSE LET cur == RowAt(table, oob, period)
             pEnd == GetSeconds(cur[END_H], cur[END_M], 0)
         IN  IF PeriodActive(pEnd, seconds)
             THEN [value |-> cur[INTENSITY], wrote |-> TRUE,
                   reads |-> {period}, gap |-> NoGap, tDur |-> NoGap]
             ELSE LET nxt == RowAt(table, oob, period + 1)
                      pNextStart == GetSeconds(nxt[START_H], nxt[START_M], 0)
                  IN  IF BetweenPeriods(pNextStart, seconds)
                      THEN LET tDur == TransitionDuration(pNextStart, pEnd)
                           IN  [value |-> Fade(cur[INTENSITY], nxt[INTENSITY],
                                               seconds - pEnd, tDur, mode),
                                wrote |-> TRUE,
                                reads |-> {period, period + 1},
                                gap |-> pNextStart - pEnd,
                                tDur |-> tDur]
                      ELSE LET rest == ScanPeriods(table, oob, period + 1,
                                                   seconds, prev, mode)
                           IN  [rest EXCEPT
                                  !.reads = @ \cup {period, period + 1}]

\* the period loop started at row 1 instead of row 0
ChannelOutcomes_FromOne(table, behind, seconds, prev, mode) ==
    UNION {IF MAXPERIODS \in inside.reads
           THEN {ScanPeriods(table, oob, 1, seconds, prev, mode) : oob \in behind}
           ELSE {inside} :
           inside \in {ScanPeriods(table, ZeroRow, 1, seconds, prev, mode)}}

\* what the body of the channel loop may do for one channel, behind whose
\* table one of the rows `behind` lies: one outcome, unless the scan reads
\* the row behind the table
ChannelOutcomes(table, behind, seconds, prev, mode) ==
    UNION {IF MAXPERIODS \in inside.reads
           THEN {ScanPeriods(table, oob, 0, seconds, prev, mode) : oob \in behind}
           ELSE {inside} :
           inside \in {ScanPeriods(table, ZeroRow, 0, seconds, prev, mode)}}

\* lightMatrix[channel][MAXPERIODS]: in the array's layout the first row of
\* the next channel's table; behind the last table, or in a build that does
\* not follow the layout, any memory
Behind(channel) ==
    IF channel + 1 < CHANNELS
    THEN {lightMatrix[channel + 1][0]} \cup OobRows
    ELSE OobRows

UpdateLights(seconds) ==
    \E outs \in {[c \in Channel |->
                     ChannelOutcomes(lightMatrix[c], Behind(c), seconds,
                                     lightValue[c], fixMode)]} :
    \E out \in {f \in [Channel -> UNION {outs[c] : c \in Channel}] :
                   \A c \in Channel : f[c] \in outs[c]} :
        /\ lightValue' = [c \in Channel |-> out[c].value]
        /\ rowsRead' = [c \in Channel |-> out[c].reads]
        /\ wrote' = [c \in Channel |-> out[c].wrote]
        /\ gapLong' = [c \in Channel |-> out[c].gap]
        /\ tDurInt' = [c \in Channel |-> out[c].tDur]
        /\ updated' = TRUE

----------------------------------------------------------------------------
(* The sketch *)

Init ==
    /\ lightMatrix \in Matrices
    /\ lightValue = [c \in Channel |-> 0]
    /\ Hours = 0
    /\ Minutes = 0
    /\ Seconds = 0
    /\ pinOut = [c \in Channel |-> 0]
    /\ pc = "setup"
    /\ fixMode \in FixModes
    /\ updated = FALSE
    /\ rowsRead = [c \in Channel |-> {}]
    /\ wrote = [c \in Channel |-> FALSE]
    /\ gapLong = [c \in Channel |-> NoGap]
    /\ tDurInt = [c \in Channel |-> NoGap]

\* setup(): pins, Wire and the RTC; the table is not looked at
setup ==
    /\ pc = "setup"
    /\ pc' = "loop"
    /\ UNCHANGED <<lightMatrix, lightValue, Hours, Minutes, Seconds, pinOut,
                   fixMode, updated, rowsRead, wrote, gapLong, tDurInt>>

\* one pass of loop(): read the clock, update, write every channel's pin
loop ==
    /\ pc = "loop"
    /\ \E now \in RTCReadings :
          /\ Hours' = now[1]
          /\ Minutes' = now[2]
          /\ Seconds' = now[3]
          /\ UpdateLights(GetSeconds(now[1], now[2], now[3]))
    /\ pinOut' = lightValue'
    /\ UNCHANGED <<lightMatrix, pc, fixMode>>

Next == setup \/ loop

Spec == Init /\ [][Next]_vars

----------------------------------------------------------------------------
(* Vocabulary of the properties.  Times are plain integers here, computed  *)
(* without the sketch's conversion.                                        *)

DaySeconds == 86400

\* the time of day of the last clock reading, passed to UpdateLights
TimeOfDay == Hours * 3600 + Minutes * 60 + Seconds

StartOf(table, p) == table[p][START_H] * 3600 + table[p][START_M] * 60
EndOf(table, p) == table[p][END_H] * 3600 + table[p][END_M] * 60
LevelOf(table, p) == table[p][INTENSITY]

\* "SOME EndTime value MUST be 24:00"
HasTerminal(table) == \E p \in Period : EndOf(table, p) = DaySeconds

\* "Any row ending with 24:00 will be considered last"
TerminalRow(table) ==
    CHOOSE p \in Period :
        /\ EndOf(table, p) = DaySeconds
        /\ \A q \in 0 .. (p - 1) : EndOf(table, q) # DaySeconds

\* a table that follows the rules: first start 00:00, chronological, each end
\* strictly before the next start, a terminal row, intensities in 0..255
ValidSchedule(table) ==
    /\ HasTerminal(table)
    /\ StartOf(table, 0) = 0
    /\ \A p \in 0 .. TerminalRow(table) :
          /\ StartOf(table, p) <= EndOf(table, p)
          /\ LevelOf(table, p) \in 0 .. 255
    /\ \A p \in 0 .. (TerminalRow(table) - 1) :
          EndOf(table, p) < StartOf(table, p + 1)

\* t lies strictly inside the gap between rows i and i+1
InGap(table, i, t) == EndOf(table, i) < t /\ t < StartOf(table, i + 1)

\* the gaps of a valid table
Gaps(table) == 0 .. (TerminalRow(table) - 1)

Min2(a, b) == IF a < b THEN a ELSE b
Max2(a, b) == IF a > b THEN a ELSE b

\* the table with every row after the terminal row replaced
Scrub(table, filler) ==
    [p \in Period |-> IF p > TerminalRow(table) THEN filler ELSE table[p]]

ScrubRows == {ZeroRow, Row(0, 0, 24, 0, 77), Row(23, 0, 23, 30, 9)}

PrevSamples == {0, 255, 0 - 1}

----------------------------------------------------------------------------
(* C1: in a gap of a valid schedule UpdateLights sets the channel to       *)
(* pre + trunc(elapsed * (post - pre) / gapDuration), truncating toward    *)
(* zero, for rising and falling fades and any starting intensity.          *)
C1_FadeFormula ==
    updated =>
      \A c \in Channel :
        ValidSchedule(lightMatrix[c]) =>
          \A i \in Gaps(lightMatrix[c]) :
            InGap(lightMatrix[c], i, TimeOfDay) =>
              lightValue[c] =
                LevelOf(lightMatrix[c], i) +
                TruncDiv((TimeOfDay - EndOf(lightMatrix[c], i)) *
                           (LevelOf(lightMatrix[c], i + 1) -
                            LevelOf(lightMatrix[c], i)),
                         StartOf(lightMatrix[c], i + 1) -
                           EndOf(lightMatrix[c], i))

(* C2: at any time from a period's start through its end, both included,   *)
(* UpdateLights sets the channel to exactly that period's intensity.       *)
C2_InsidePeriod ==
    updated =>
      \A c \in Channel :
        ValidSchedule(lightMatrix[c]) =>
          \A p \in 0 .. TerminalRow(lightMatrix[c]) :
            (StartOf(lightMatrix[c], p) <= TimeOfDay
               /\ TimeOfDay <= EndOf(lightMatrix[c], p)) =>
              lightValue[c] = LevelOf(lightMatrix[c], p)

\* the clock stands exactly on the end of a period that a fade from a
\* non-zero intensity follows
C2_Witness ==
    /\ updated
    /\ \E c \in Channel :
         /\ ValidSchedule(lightMatrix[c])
         /\ \E p \in Gaps(lightMatrix[c]) :
              /\ TimeOfDay = EndOf(lightMatrix[c], p)
              /\ TimeOfDay < StartOf(lightMatrix[c], p + 1)
              /\ LevelOf(lightMatrix[c], p) > 0
              /\ LevelOf(lightMatrix[c], p + 1) > LevelOf(lightMatrix[c], p)
              /\ lightValue[c] = LevelOf(lightMatrix[c], p)

(* C3: with valid schedules every entry of lightValue is in 0..255 after   *)
(* any sequence of UpdateLights calls.                                     *)
C3_ValueInRange ==
    (\A c \in Channel : ValidSchedule(lightMatrix[c])) =>
      \A c \in Channel : lightValue[c] \in 0 .. 255

(* C4: within one gap of a valid schedule the value at a later time is not *)
(* below the value at an earlier time when the fade rises, and not above   *)
(* it when the fade falls.                                                 *)
C4_Monotonic ==
    [][\A c \in Channel :
         (updated /\ ValidSchedule(lightMatrix[c])) =>
           \A i \in Gaps(lightMatrix[c]) :
             (/\ InGap(lightMatrix[c], i, TimeOfDay)
              /\ InGap(lightMatrix[c], i, TimeOfDay')
              /\ TimeOfDay <= TimeOfDay') =>
               /\ (LevelOf(lightMatrix[c], i + 1) > LevelOf(lightMatrix[c], i)
                     => lightValue'[c] >= lightValue[c])
               /\ (LevelOf(lightMatrix[c], i + 1) < LevelOf(lightMatrix[c], i)
                     => lightValue'[c] <= lightValue[c])]_vars

(* C5: rows after the terminal row are never read and never change the     *)
(* result: the scan touches no row index above the terminal row's, the     *)
(* value is the one the table gives with those rows replaced by anything,  *)
(* and a table starting {0,0,24,0,255} gives 255 at every time.            *)
C5_TrailingRowsIgnored ==
    updated =>
      \A c \in Channel :
        ValidSchedule(lightMatrix[c]) =>
          /\ \A r \in rowsRead[c] : r <= TerminalRow(lightMatrix[c])
          /\ \A filler \in ScrubRows :
               \A o \in ChannelOutcomes(Scrub(lightMatrix[c], filler),
                                        Behind(c), TimeOfDay, 0, fixMode) :
                 o.value = lightValue[c]
          /\ lightMatrix[c][0] = Row(0, 0, 24, 0, 255) => lightValue[c] = 255

\* an always-on table with rows that are not zero behind its first row has
\* been scanned late in the day
C5_Witness ==
    /\ updated
    /\ \E c \in Channel :
         /\ lightMatrix[c][0] = Row(0, 0, 24, 0, 255)
         /\ lightMatrix[c][1] # ZeroRow
         /\ TimeOfDay > 0
         /\ rowsRead[c] = {0}
         /\ lightValue[c] = 255

\* after a call every valid channel's entry has been assigned, and the scan
\* gives the same value from any previous value of the entry
C6_StatePart ==
    updated =>
      \A c \in Channel :
        ValidSchedule(lightMatrix[c]) =>
          /\ wrote[c]
          /\ \A prev \in PrevSamples :
               \A o \in ChannelOutcomes(lightMatrix[c], Behind(c), TimeOfDay,
                                        prev, fixMode) :
                 o.wrote /\ o.value = lightValue[c]

\* a call with the time of the previous call leaves a valid channel's entry
C6_StepPart ==
    \A c \in Channel :
      (updated /\ ValidSchedule(lightMatrix[c]) /\ TimeOfDay' = TimeOfDay) =>
        lightValue'[c] = lightValue[c]

(* C6: with a valid schedule the contents of lightValue depend only on the *)
(* time of the last call: every entry is assigned on every call, whatever  *)
(* the entry held before, and a second call with the same time leaves      *)
(* lightValue as it is.                                                    *)
C6_HistoryIndependent == [](C6_StatePart) /\ [][C6_StepPart]_vars

\* UpdateLights has run on an edited, valid table whose channel now holds a
\* value that is not the initial 0
C6_Witness ==
    /\ updated
    /\ \E c \in Channel :
         /\ ValidSchedule(lightMatrix[c])
         /\ lightMatrix[c] # ShippedMatrix[c]
         /\ wrote[c]
         /\ lightValue[c] # 0

(* C7: a schedule in which no period ends at 24:00 is rejected at startup: *)
(* UpdateLights never runs with such a schedule.                           *)
C7_RejectedAtStartup ==
    updated => \A c \in Channel : HasTerminal(lightMatrix[c])

(* C8: for any table contents UpdateLights reads no period row at an index *)
(* >= MAXPERIODS, neither as the current row nor as the next row.          *)
C8_ScanInBounds ==
    \A c \in Channel : \A r \in rowsRead[c] : r < MAXPERIODS

(* C9: in a gap of a valid schedule the computed value lies between the    *)
(* two adjacent intensities, also when the fade rises from a non-zero one. *)
C9_FadeBetween ==
    updated =>
      \A c \in Channel :
        ValidSchedule(lightMatrix[c]) =>
          \A i \in Gaps(lightMatrix[c]) :
            InGap(lightMatrix[c], i, TimeOfDay) =>
              /\ lightValue[c] >= Min2(LevelOf(lightMatrix[c], i),
                                       LevelOf(lightMatrix[c], i + 1))
              /\ lightValue[c] <= Max2(LevelOf(lightMatrix[c], i),
                                       LevelOf(lightMatrix[c], i + 1))

(* C10: for every gap of a valid schedule the int tDur equals the long     *)
(* difference pNextStart - pEnd and is positive.                           *)
C10_DurationFits ==
    updated =>
      \A c \in Channel :
        (ValidSchedule(lightMatrix[c]) /\ gapLong[c] # NoGap) =>
          tDurInt[c] = gapLong[c] /\ tDurInt[c] > 0

====
